---- MODULE Spec2Model ----
(***************************************************************************)
(* A model of the SecretsManager wrapper: the encrypted per-key cache with *)
(* TTL expiry (Get), the retry loop around the fetch of the secret         *)
(* (retry, fetchSecrets), the encryption gateway (EncryptValue,            *)
(* DecryptValue) and the polling watcher (Watch).                          *)
(*                                                                         *)
(* Every goroutine that calls Get is a process.  Under GetSpec both         *)
(* processes are application goroutines that call Get directly; under Spec *)
(* "p1" is such a goroutine and "p2" is the goroutine started by one call  *)
(* of Watch.  The secret store and KMS are the environment: the store      *)
(* holds the upstream mapping, which the environment may change, and every *)
(* call to the store or to KMS may fail.                                   *)
(***************************************************************************)
EXTENDS Integers, Sequences, FiniteSets, TLC

\* ------------------------------------------------------------- bounds
\* The number of changes the environment makes to the upstream secret.
MaxChanges == 1

\* ---------------------------------------------------- program constants
maxAttempts == 3
initialDelay == 500
maxDelay == 5000
\* The TTL the manager was constructed with (WithCacheTTL), in clock ticks.
cacheTTL == 2

\* time.Now().  Time is read relative to the present: the present is 0, a
\* time stamp taken t ticks ago is -t, and a tick of the clock (Tick) moves
\* every time stamp one tick into the past.  A time stamp cacheTTL ticks old
\* or older is kept as -cacheTTL: the program only ever asks whether a time
\* stamp is less than cacheTTL old.
now == 0

\* A time stamp t, one tick later.
Aged(t) == IF t - 1 < -cacheTTL THEN -cacheTTL ELSE t - 1

\* ------------------------------------------------------------ universe
Procs == {"p1", "p2"}
Getters == {"p1"}
Watchers == {"p2"}
Keys == {"k1", "k2"}
Values == {"A", "B"}
\* The keys the environment rotates, and the keys a Watch is started for.
RotatedKeys == {"k1"}
WatchedKeys == {"k1"}
\* The keys a process calls Get with: "p1" with any key, "p2" with the
\* keys a Watch is started for.
CallKeys(p) == IF p \in Watchers THEN WatchedKeys ELSE Keys
\* Go's "" returned beside an error.
NoValue == ""

VARIABLES
  upstream,   \* the secret held by the store: a mapping of some keys to values
  ver,        \* history: per key, how many times its upstream value changed
  cache,      \* s.cache: a mapping of some keys to cachedSecret
  readers,    \* the processes holding s.cacheLock for reading
  writer,     \* the process holding s.cacheLock for writing, or "none"
  pc,         \* per process: its place in Get
  key,        \* per process: Get's argument
  calls,      \* per process: the store calls made by the fetch of the current Get,
              \* until Get goes on to take the write lock
  slept,      \* per process: the delays retry has slept in that fetch, in order
  errs,       \* per process: the errors of the attempts of a fetch that failed, in order
  secretsMap, \* per process: the mapping fetched by the current Get
  todo,       \* per process: the keys the install loop has not reached yet
  cache0,     \* history: per process, the cache when it took the write lock
  res,        \* per process: what Get returned
  wpc,        \* per watcher: its place in Watch's goroutine
  wkey,       \* per watcher: the watched key
  lastVal,    \* per watcher: lastVal
  cancelled,  \* per watcher: whether ctx.Done() is closed
  cbCount,    \* history: per watcher, the callback invocations: 0, 1, or 2 for more
  seedVer,    \* history: per watcher, the version of the upstream value its seed equals
  lastVer,    \* history: per watcher, the version of the upstream value lastVal equals
  missed      \* history: per watcher, whether a poll of it failed before the
              \* callback was first invoked

gvars == <<upstream, ver, cache, readers, writer>>
pvars == <<pc, key, calls, slept, errs, secretsMap, todo, cache0, res>>
wvars == <<wpc, wkey, lastVal, cancelled, cbCount, seedVer, lastVer, missed>>
vars == <<gvars, pvars, wvars>>

\* ------------------------------------------------------------- helpers
Min(a, b) == IF a < b THEN a ELSE b

EmptyMap == [k \in {} |-> NoValue]

Put(m, k, v) == [x \in (DOMAIN m) \cup {k} |-> IF x = k THEN v ELSE m[x]]

Remove(m, k) == [x \in (DOMAIN m) \ {k} |-> m[x]]

\* ---------------------------------------------------- encryption gateway
\* Bytes are either a KMS ciphertext blob over some data or the raw data.
\* A string that holds ciphertext is either the base64 text of some bytes or
\* a text that is no base64 at all.
KmsSeal(data) == [kms |-> TRUE, data |-> data]

Base64Encode(bytes) == [b64 |-> TRUE, bytes |-> bytes]

Base64Valid(str) == str.b64

Base64Decode(str) == str.bytes

EmptyString == [b64 |-> TRUE, bytes |-> [kms |-> FALSE, data |-> NoValue]]

\* client.Encrypt: kmsOk is whether the service answers.
KmsEncrypt(plaintext, kmsOk) ==
  IF kmsOk THEN [err |-> FALSE, blob |-> KmsSeal(plaintext)]
           ELSE [err |-> TRUE, blob |-> KmsSeal(NoValue)]

\* client.Decrypt: the service answers only for a blob it sealed.
KmsDecrypt(bytes, kmsOk) ==
  IF kmsOk /\ bytes.kms THEN [err |-> FALSE, plaintext |-> bytes.data]
                        ELSE [err |-> TRUE, plaintext |-> NoValue]

EncryptValue(plaintext, kmsOk) ==
  LET result == KmsEncrypt(plaintext, kmsOk)
  IN  IF result.err THEN [err |-> TRUE, val |-> EmptyString]
      ELSE [err |-> FALSE, val |-> Base64Encode(result.blob)]

\* DecryptValue without the check of the decoding: whatever bytes were
\* decoded are handed to the service.
DecryptValueUnchecked(ciphertextB64, kmsOk) ==
  LET result == KmsDecrypt(Base64Decode(ciphertextB64), kmsOk)
  IN  IF result.err THEN [err |-> TRUE, val |-> NoValue, kmsCalls |-> 1]
      ELSE [err |-> FALSE, val |-> result.plaintext, kmsCalls |-> 1]

\* Beside the result, the calls made to client.Decrypt (kmsCalls).
DecryptValue(ciphertextB64, kmsOk) ==
  IF ~Base64Valid(ciphertextB64) THEN [err |-> TRUE, val |-> NoValue, kmsCalls |-> 0]
  ELSE LET result == KmsDecrypt(Base64Decode(ciphertextB64), kmsOk)
       IN  IF result.err THEN [err |-> TRUE, val |-> NoValue, kmsCalls |-> 1]
           ELSE [err |-> FALSE, val |-> result.plaintext, kmsCalls |-> 1]

\* ------------------------------------------------------------ the store
\* What GetSecretValue returns: an error, or an output whose SecretString is
\* nil, empty, a text that is no JSON object of strings, or the JSON text of
\* the upstream mapping.
JSONMarshal(m) == [kind |-> "json", map |-> m]

\* GetSecretValue returns an error.
StoreError == [err |-> TRUE, str |-> [kind |-> "nil", map |-> EmptyMap]]

\* The answers of GetSecretValue that make the operation fail.
FailedAnswers ==
  { StoreError }
    \cup { [err |-> FALSE, str |-> [kind |-> k, map |-> EmptyMap]] : k \in {"nil", "empty", "text"} }

\* The ways the store may fail the first calls of one fetch: n calls fail,
\* either each of them with the same failing answer, or the last of them
\* with any failing answer and those before it with an error of the store.
FailedCalls ==
  { [i \in 1..n |-> IF i = n THEN last ELSE StoreError] :
      n \in 0..maxAttempts, last \in FailedAnswers }
    \cup { [i \in 1..n |-> a] : n \in 0..maxAttempts, a \in FailedAnswers }

\* fetchSecrets' operation, applied to the store's answer.
operation(out) ==
  IF out.err THEN [ok |-> FALSE, err |-> "store", map |-> EmptyMap]
  ELSE IF out.str.kind \in {"nil", "empty"}
       THEN [ok |-> FALSE, err |-> "empty", map |-> EmptyMap]
  ELSE IF out.str.kind # "json"
       THEN [ok |-> FALSE, err |-> "malformed", map |-> EmptyMap]
  ELSE [ok |-> TRUE, err |-> "nil", map |-> out.str.map]

\* --------------------------------------------------------------- cache
cachedSecret(enc, at) == [encryptedValue |-> enc, fetchedAt |-> at]

\* The zero cachedSecret of a lookup that found nothing.
ZeroEntry == cachedSecret(EmptyString, -cacheTTL)

\* The comparison of the freshness test turned round.
FreshInverted(entry, t) == t - entry.fetchedAt > cacheTTL

\* time.Since(cs.fetchedAt) < s.cacheTTL
Fresh(entry, t) == t - entry.fetchedAt < cacheTTL

\* The loop condition off by one: i <= maxAttempts.
LoopCondInclusive(i) == i <= maxAttempts

\* retry's loop condition: i < s.maxAttempts.
LoopCond(i) == i < maxAttempts

\* delay *= 2 without the cap.
NextDelayUncapped(d) == d * 2

\* delay *= 2, capped.
NextDelay(d) == IF d * 2 > maxDelay THEN maxDelay ELSE d * 2

NoRes == [kind |-> "none", val |-> NoValue, at |-> -cacheTTL]

\* What Get returns; beside a value, the time at which that Get took it:
\* the time of the lookup that found it fresh, or the time at which the
\* refresh stored it (history).
Returned(r, at) ==
  [kind |-> r.kind, val |-> r.val, at |-> IF r.val = NoValue THEN -cacheTTL ELSE at]

\* ---------------------------------------------------------------- Init
NoCache == [k \in {} |-> ZeroEntry]

Init ==
  /\ upstream = [k \in Keys |-> "A"]
  /\ ver = [k \in Keys |-> 0]
  /\ cache = NoCache
  /\ readers = {}
  /\ writer = "none"
  /\ pc = [p \in Procs |-> "idle"]
  /\ key = [p \in Procs |-> "k1"]
  /\ calls = [p \in Procs |-> 0]
  /\ slept = [p \in Procs |-> <<>>]
  /\ errs = [p \in Procs |-> <<>>]
  /\ secretsMap = [p \in Procs |-> EmptyMap]
  /\ todo = [p \in Procs |-> {}]
  /\ cache0 = [p \in Procs |-> NoCache]
  /\ res = [p \in Procs |-> NoRes]
  /\ wpc = [w \in Watchers |-> "new"]
  /\ wkey = [w \in Watchers |-> "k1"]
  /\ lastVal = [w \in Watchers |-> NoValue]
  /\ cancelled = [w \in Watchers |-> FALSE]
  /\ cbCount = [w \in Watchers |-> 0]
  /\ seedVer = [w \in Watchers |-> -1]
  /\ lastVer = [w \in Watchers |-> -1]
  /\ missed = [w \in Watchers |-> FALSE]

\* ----------------------------------------------------------------- Get
\* The locals of a Get that is not running.
ResetLocals(p) ==
  /\ calls' = [calls EXCEPT ![p] = 0]
  /\ slept' = [slept EXCEPT ![p] = <<>>]
  /\ errs' = [errs EXCEPT ![p] = <<>>]
  /\ secretsMap' = [secretsMap EXCEPT ![p] = EmptyMap]
  /\ todo' = [todo EXCEPT ![p] = {}]
  /\ cache0' = [cache0 EXCEPT ![p] = NoCache]

\* Get is called with k and takes the read lock.
GetCall(p, k) ==
  /\ pc[p] = "idle"
  /\ writer = "none"
  /\ readers' = readers \cup {p}
  /\ pc' = [pc EXCEPT ![p] = "lookup"]
  /\ key' = [key EXCEPT ![p] = k]
  /\ UNCHANGED <<upstream, ver, cache, writer, calls, slept, errs,
                 secretsMap, todo, cache0, res>>

\* The hit's result with a failed decryption reported as the error of the
\* refresh path ("failed to decrypt secret").
HitResultAsRefresh(entry, kmsOk) ==
  LET d == DecryptValue(entry.encryptedValue, kmsOk)
  IN  IF d.err THEN [kind |-> "decryptErr", val |-> NoValue]
      ELSE [kind |-> "hit", val |-> d.val]

\* What Get returns for a fresh entry cs: its decrypted value, or the error
\* of the cached value.
HitResult(entry, kmsOk) ==
  LET d == DecryptValue(entry.encryptedValue, kmsOk)
  IN  IF d.err THEN [kind |-> "cachedDecryptErr", val |-> NoValue]
      ELSE [kind |-> "hit", val |-> d.val]

\* cs, ok := s.cache[key] under the read lock, which is released on both
\* branches.  A fresh entry is decrypted (outside the lock, from the copy
\* cs) and returned; otherwise retry starts.
GetLookup(p, kmsOk) ==
  /\ pc[p] = "lookup"
  /\ LET ok == key[p] \in DOMAIN cache
         entry == IF ok THEN cache[key[p]] ELSE ZeroEntry
     IN  IF ok /\ Fresh(entry, now)
         THEN /\ res' = [res EXCEPT ![p] = Returned(HitResult(entry, kmsOk), now)]
              /\ pc' = [pc EXCEPT ![p] = "done"]
         ELSE /\ pc' = [pc EXCEPT ![p] = "fetch"]
              /\ UNCHANGED res
  /\ readers' = readers \ {p}
  /\ UNCHANGED <<upstream, ver, cache, writer, key, calls, slept, errs,
                 secretsMap, todo, cache0>>

\* The answers of the store to the calls of one fetch: it fails the first
\* calls as fails says and answers every later call with the JSON text of
\* the mapping m.
Answers(fails, m) ==
  [n \in 1..(maxAttempts + 1) |->
     IF n <= Len(fails) THEN fails[n] ELSE [err |-> FALSE, str |-> JSONMarshal(m)]]

\* retry(operation), from pass i of its loop on, with the store answering
\* the n-th call of this fetch with answers[n]: the first success is
\* returned at once; a failure is kept as lastErr, the delay is slept and
\* doubled; after the loop lastErr is returned.
\* Beside the result it tells the calls made (calls), the delays slept
\* (slept) and the errors met (errs).
RECURSIVE RetryLoop(_, _, _, _, _, _)
RetryLoop(answers, i, d, last, sl, es) ==
  IF ~LoopCond(i)
  THEN [ok |-> FALSE, err |-> last, map |-> EmptyMap, calls |-> i, slept |-> sl,
        errs |-> es]
  ELSE LET r == operation(answers[i + 1])
       IN  IF r.ok
           THEN [ok |-> TRUE, err |-> "nil", map |-> r.map, calls |-> i + 1,
                 slept |-> sl, errs |-> es]
           ELSE RetryLoop(answers, i + 1, NextDelay(d), r.err, Append(sl, d),
                          Append(es, r.err))

\* retry with a failure of the payload taken as final on the first attempt:
\* only an error of the store is retried.
retryStoreErrorsOnly(answers) ==
  LET first == operation(answers[1])
  IN  IF ~first.ok /\ first.err # "store"
      THEN [ok |-> FALSE, err |-> first.err, map |-> EmptyMap, calls |-> 1,
            slept |-> <<>>, errs |-> <<first.err>>]
      ELSE RetryLoop(answers, 0, initialDelay, "nil", <<>>, <<>>)

\* retry going through all its attempts although one has succeeded.
retryAllAttempts(answers) ==
  LET r == RetryLoop(answers, 0, initialDelay, "nil", <<>>, <<>>)
  IN  IF r.ok THEN [r EXCEPT !.calls = maxAttempts] ELSE r

retry(answers) == RetryLoop(answers, 0, initialDelay, "nil", <<>>, <<>>)

\* fetchSecrets with a failure that invalidates the cache.
GetFetchInvalidating(p, fails) ==
  /\ pc[p] = "fetch"
  /\ LET r == retry(Answers(fails, upstream))
     IN  /\ calls' = [calls EXCEPT ![p] = r.calls]
         /\ slept' = [slept EXCEPT ![p] = r.slept]
         /\ errs' = [errs EXCEPT ![p] = IF r.ok THEN <<>> ELSE r.errs]
         /\ IF r.ok
            THEN /\ secretsMap' = [secretsMap EXCEPT ![p] = r.map]
                 /\ pc' = [pc EXCEPT ![p] = "lock"]
                 /\ UNCHANGED <<res, cache>>
            ELSE /\ pc' = [pc EXCEPT ![p] = "done"]
                 /\ res' = [res EXCEPT ![p] = Returned([kind |-> r.err, val |-> NoValue], now)]
                 /\ cache' = NoCache
                 /\ UNCHANGED secretsMap
  /\ UNCHANGED <<upstream, ver, readers, writer, key, todo, cache0>>

\* fetchSecrets: the store fails the first calls of this fetch as fails says
\* and answers every later call with the JSON text of the upstream mapping.
\* The failed passes of the loop touch nothing that is shared, so the whole
\* loop is one step.
GetFetch(p, fails) ==
  /\ pc[p] = "fetch"
  /\ LET r == retry(Answers(fails, upstream))
     IN  /\ calls' = [calls EXCEPT ![p] = r.calls]
         /\ slept' = [slept EXCEPT ![p] = r.slept]
         /\ errs' = [errs EXCEPT ![p] = IF r.ok THEN <<>> ELSE r.errs]
         /\ IF r.ok
            THEN /\ secretsMap' = [secretsMap EXCEPT ![p] = r.map]
                 /\ pc' = [pc EXCEPT ![p] = "lock"]
                 /\ UNCHANGED res
            ELSE /\ pc' = [pc EXCEPT ![p] = "done"]
                 /\ res' = [res EXCEPT ![p] = Returned([kind |-> r.err, val |-> NoValue], now)]
                 /\ UNCHANGED secretsMap
  /\ UNCHANGED <<gvars, key, todo, cache0>>

\* s.cacheLock.Lock()
GetLock(p) ==
  /\ pc[p] = "lock"
  /\ writer = "none"
  /\ readers = {}
  /\ writer' = p
  /\ pc' = [pc EXCEPT ![p] = "install"]
  /\ todo' = [todo EXCEPT ![p] = DOMAIN secretsMap[p]]
  /\ cache0' = [cache0 EXCEPT ![p] = cache]
  /\ calls' = [calls EXCEPT ![p] = 0]
  /\ slept' = [slept EXCEPT ![p] = <<>>]
  /\ UNCHANGED <<upstream, ver, cache, readers, key, errs, secretsMap, res>>

\* The assignment with the value left unsealed: base64 of the plaintext.
StoreUnsealed(c, k, entry) ==
  Put(c, k, [entry EXCEPT !.encryptedValue.bytes.kms = FALSE])

\* s.cache[k] = cachedSecret{...}
Store(c, k, entry) == Put(c, k, entry)

\* One pass of the install loop without the deferred Unlock: a failed
\* encryption returns with the write lock held.
GetInstallNoDefer(p, k, kmsOk) ==
  /\ pc[p] = "install"
  /\ k \in todo[p]
  /\ LET e == EncryptValue(secretsMap[p][k], kmsOk)
     IN  IF e.err
         THEN /\ res' = [res EXCEPT ![p] = Returned([kind |-> "encryptErr", val |-> NoValue], now)]
              /\ pc' = [pc EXCEPT ![p] = "done"]
              /\ todo' = [todo EXCEPT ![p] = {}]
              /\ cache0' = [cache0 EXCEPT ![p] = NoCache]
              /\ UNCHANGED <<cache, writer>>
         ELSE /\ cache' = Store(cache, k, cachedSecret(e.val, now))
              /\ todo' = [todo EXCEPT ![p] = @ \ {k}]
              /\ UNCHANGED <<res, pc, writer, cache0>>
  /\ UNCHANGED <<upstream, ver, readers, key, calls, slept, errs,
                 secretsMap>>

\* One pass of the install loop, for a key k the range has not reached: the
\* value is encrypted and stored; a failed encryption returns, and the
\* deferred Unlock runs.
GetInstall(p, k, kmsOk) ==
  /\ pc[p] = "install"
  /\ k \in todo[p]
  /\ LET e == EncryptValue(secretsMap[p][k], kmsOk)
     IN  IF e.err
         THEN /\ res' = [res EXCEPT ![p] = Returned([kind |-> "encryptErr", val |-> NoValue], now)]
              /\ pc' = [pc EXCEPT ![p] = "done"]
              /\ writer' = "none"
              /\ todo' = [todo EXCEPT ![p] = {}]
              /\ cache0' = [cache0 EXCEPT ![p] = NoCache]
              /\ UNCHANGED cache
         ELSE /\ cache' = Store(cache, k, cachedSecret(e.val, now))
              /\ todo' = [todo EXCEPT ![p] = @ \ {k}]
              /\ UNCHANGED <<res, pc, writer, cache0>>
  /\ UNCHANGED <<upstream, ver, readers, key, calls, slept, errs,
                 secretsMap>>

\* What Get returns after the install loop: the requested key is read from
\* the cache c and decrypted.
FinishResult(c, k, kmsOk) ==
  IF k \notin DOMAIN c THEN [kind |-> "notFound", val |-> NoValue]
  ELSE LET d == DecryptValue(c[k].encryptedValue, kmsOk)
       IN  IF d.err THEN [kind |-> "decryptErr", val |-> NoValue]
           ELSE [kind |-> "refreshed", val |-> d.val]

\* After the loop: Get returns; the deferred Unlock runs.
GetFinish(p, kmsOk) ==
  /\ pc[p] = "install"
  /\ todo[p] = {}
  /\ LET ok == key[p] \in DOMAIN cache
         entry == IF ok THEN cache[key[p]] ELSE ZeroEntry
     IN  res' = [res EXCEPT ![p] = Returned(FinishResult(cache, key[p], kmsOk),
                                            entry.fetchedAt)]
  /\ pc' = [pc EXCEPT ![p] = "done"]
  /\ writer' = "none"
  /\ cache0' = [cache0 EXCEPT ![p] = NoCache]
  /\ UNCHANGED <<upstream, ver, cache, readers, key, calls, slept, errs,
                 secretsMap, todo>>

\* ------------------------------------------------------- the goroutines
\* An application goroutine calls Get with some key.
GetterCall(g) ==
  /\ \E k \in CallKeys(g) : GetCall(g, k)
  /\ UNCHANGED wvars

\* ... and takes what Get returned.
GetterReturn(g) ==
  /\ pc[g] = "done"
  /\ pc' = [pc EXCEPT ![g] = "idle"]
  /\ key' = [key EXCEPT ![g] = "k1"]
  /\ res' = [res EXCEPT ![g] = NoRes]
  /\ ResetLocals(g)
  /\ UNCHANGED <<gvars, wvars>>

\* --------------------------------------------------------------- Watch
\* Whether Get returned a value and no error.
Succeeded(r) == r.kind \in {"hit", "refreshed"}

\* The version of the upstream value of k that v equals, or -1.
VersionOf(k, v) == IF k \in DOMAIN upstream /\ upstream[k] = v THEN ver[k] ELSE -1

\* val != lastVal
Changed(val, last) == val # last

\* The goroutine of Watch(ctx, k, interval, callback) starts and calls Get
\* for its seed.
WatchStartOn(w, k) ==
  /\ wpc[w] = "new"
  /\ GetCall(w, k)
  /\ wkey' = [wkey EXCEPT ![w] = k]
  /\ wpc' = [wpc EXCEPT ![w] = "seed"]
  /\ UNCHANGED <<lastVal, cancelled, cbCount, seedVer, lastVer, missed>>

\* Watch is called for one of the watched keys.
WatchStart(w) == \E k \in WatchedKeys : WatchStartOn(w, k)

\* The seed's result with an error that is only logged: the ticker starts
\* all the same.
WatchSeededTolerant(w) ==
  /\ wpc[w] = "seed"
  /\ pc[w] = "done"
  /\ lastVal' = [lastVal EXCEPT ![w] = res[w].val]
  /\ seedVer' = [seedVer EXCEPT ![w] = VersionOf(wkey[w], res[w].val)]
  /\ lastVer' = [lastVer EXCEPT ![w] = VersionOf(wkey[w], res[w].val)]
  /\ wpc' = [wpc EXCEPT ![w] = "select"]
  /\ pc' = [pc EXCEPT ![w] = "idle"]
  /\ res' = [res EXCEPT ![w] = NoRes]
  /\ ResetLocals(w)
  /\ UNCHANGED <<gvars, key, wkey, cancelled, cbCount, missed>>

\* The seed Get has returned: an error ends the goroutine, a value becomes
\* lastVal and the ticker starts.
WatchSeeded(w) ==
  /\ wpc[w] = "seed"
  /\ pc[w] = "done"
  /\ IF Succeeded(res[w])
     THEN /\ lastVal' = [lastVal EXCEPT ![w] = res[w].val]
          /\ seedVer' = [seedVer EXCEPT ![w] = VersionOf(wkey[w], res[w].val)]
          /\ lastVer' = [lastVer EXCEPT ![w] = VersionOf(wkey[w], res[w].val)]
          /\ wpc' = [wpc EXCEPT ![w] = "select"]
     ELSE /\ wpc' = [wpc EXCEPT ![w] = "exit"]
          /\ UNCHANGED <<lastVal, seedVer, lastVer>>
  /\ pc' = [pc EXCEPT ![w] = "idle"]
  /\ res' = [res EXCEPT ![w] = NoRes]
  /\ ResetLocals(w)
  /\ UNCHANGED <<gvars, key, wkey, cancelled, cbCount, missed>>

\* select takes the ticker's case (a tick is pending) and calls Get.  The
\* case may be taken while ctx.Done() is ready as well: select chooses among
\* its ready cases at random.
WatchTick(w) ==
  /\ wpc[w] = "select"
  /\ GetCall(w, wkey[w])
  /\ wpc' = [wpc EXCEPT ![w] = "poll"]
  /\ UNCHANGED <<wkey, lastVal, cancelled, cbCount, seedVer, lastVer, missed>>

\* The poll's result with an error taken as a value: the empty string that
\* Get returns beside it is compared and handed to the callback.
WatchPolledNoErrCheck(w) ==
  /\ wpc[w] = "poll"
  /\ pc[w] = "done"
  /\ IF Changed(res[w].val, lastVal[w])
     THEN /\ lastVal' = [lastVal EXCEPT ![w] = res[w].val]
          /\ lastVer' = [lastVer EXCEPT ![w] = VersionOf(wkey[w], res[w].val)]
          /\ cbCount' = [cbCount EXCEPT ![w] = Min(@ + 1, 2)]
     ELSE UNCHANGED <<lastVal, lastVer, cbCount>>
  /\ missed' = IF Succeeded(res[w]) \/ cbCount[w] > 0 THEN missed
               ELSE [missed EXCEPT ![w] = TRUE]
  /\ wpc' = [wpc EXCEPT ![w] = "select"]
  /\ pc' = [pc EXCEPT ![w] = "idle"]
  /\ res' = [res EXCEPT ![w] = NoRes]
  /\ ResetLocals(w)
  /\ UNCHANGED <<gvars, key, wkey, cancelled, seedVer>>

\* The poll's Get has returned: an error is logged; a value that differs
\* from lastVal replaces it and is handed to the callback.
WatchPolled(w) ==
  /\ wpc[w] = "poll"
  /\ pc[w] = "done"
  /\ IF Succeeded(res[w]) /\ Changed(res[w].val, lastVal[w])
     THEN /\ lastVal' = [lastVal EXCEPT ![w] = res[w].val]
          /\ lastVer' = [lastVer EXCEPT ![w] = VersionOf(wkey[w], res[w].val)]
          /\ cbCount' = [cbCount EXCEPT ![w] = Min(@ + 1, 2)]
     ELSE UNCHANGED <<lastVal, lastVer, cbCount>>
  /\ missed' = IF Succeeded(res[w]) \/ cbCount[w] > 0 THEN missed
               ELSE [missed EXCEPT ![w] = TRUE]
  /\ wpc' = [wpc EXCEPT ![w] = "select"]
  /\ pc' = [pc EXCEPT ![w] = "idle"]
  /\ res' = [res EXCEPT ![w] = NoRes]
  /\ ResetLocals(w)
  /\ UNCHANGED <<gvars, key, wkey, cancelled, seedVer>>

\* select takes the case of ctx.Done(): the goroutine returns, and its
\* locals are gone.
WatchCtxDone(w) ==
  /\ wpc[w] = "select"
  /\ cancelled[w]
  /\ wpc' = [wpc EXCEPT ![w] = "exit"]
  /\ lastVal' = [lastVal EXCEPT ![w] = NoValue]
  /\ seedVer' = [seedVer EXCEPT ![w] = -1]
  /\ lastVer' = [lastVer EXCEPT ![w] = -1]
  /\ missed' = [missed EXCEPT ![w] = FALSE]
  /\ UNCHANGED <<gvars, pvars, wkey, cancelled, cbCount>>

\* The caller of Watch cancels ctx.
Cancel(w) ==
  /\ ~cancelled[w]
  /\ wpc[w] # "exit"
  /\ cancelled' = [cancelled EXCEPT ![w] = TRUE]
  /\ UNCHANGED <<gvars, pvars, wpc, wkey, lastVal, cbCount, seedVer, lastVer, missed>>

\* --------------------------------------------------------- environment
\* The clock ticks.
Tick ==
  /\ cache' = [k \in DOMAIN cache |-> [cache[k] EXCEPT !.fetchedAt = Aged(@)]]
  /\ cache0' = [p \in Procs |->
                 [k \in DOMAIN cache0[p] |-> [cache0[p][k] EXCEPT !.fetchedAt = Aged(@)]]]
  /\ res' = [p \in Procs |-> [res[p] EXCEPT !.at = Aged(@)]]
  /\ UNCHANGED <<upstream, ver, readers, writer, pc, key, calls, slept, errs,
                 secretsMap, todo, wvars>>

Changes == ver["k1"] + ver["k2"]

\* The secret is rotated in the store: a key gets another value, or is
\* removed (v is NoValue), or is added.
SetUpstream(k, v) ==
  /\ Changes < MaxChanges
  /\ IF k \in DOMAIN upstream THEN upstream[k] # v ELSE v # NoValue
  /\ upstream' = IF v = NoValue THEN Remove(upstream, k) ELSE Put(upstream, k, v)
  /\ ver' = [ver EXCEPT ![k] = @ + 1]
  /\ UNCHANGED <<cache, readers, writer, pvars, wvars>>

\* A step of the Get that process p is running.
GetStep(p) ==
  \/ \E kmsOk \in BOOLEAN : GetLookup(p, kmsOk)
  \/ \E fails \in FailedCalls : GetFetch(p, fails)
  \/ GetLock(p)
  \/ \E k \in Keys, kmsOk \in BOOLEAN : GetInstall(p, k, kmsOk)
  \/ \E kmsOk \in BOOLEAN : GetFinish(p, kmsOk)

Next ==
  \/ \E p \in Procs : GetStep(p) /\ UNCHANGED wvars
  \/ \E g \in Getters : GetterCall(g)
  \/ \E g \in Getters : GetterReturn(g)
  \/ \E w \in Watchers : WatchStart(w)
  \/ \E w \in Watchers : WatchSeeded(w)
  \/ \E w \in Watchers : WatchTick(w)
  \/ \E w \in Watchers : WatchPolled(w)
  \/ \E w \in Watchers : WatchCtxDone(w)
  \/ \E w \in Watchers : Cancel(w)
  \/ Tick
  \/ \E k \in RotatedKeys, v \in Values \cup {NoValue} : SetUpstream(k, v)

Spec == Init /\ [][Next]_vars

\* Both processes are application goroutines calling Get; no Watch runs.
GetNext ==
  \/ \E p \in Procs : GetStep(p) /\ UNCHANGED wvars
  \/ \E p \in Procs : GetterCall(p)
  \/ \E p \in Procs : GetterReturn(p)
  \/ Tick
  \/ \E k \in RotatedKeys, v \in Values \cup {NoValue} : SetUpstream(k, v)

GetSpec == Init /\ [][GetNext]_vars


\* One Watch runs and no other goroutine calls Get.
WatchNext ==
  \/ \E w \in Watchers : GetStep(w) /\ UNCHANGED wvars
  \/ \E w \in Watchers : WatchStart(w)
  \/ \E w \in Watchers : WatchSeeded(w)
  \/ \E w \in Watchers : WatchTick(w)
  \/ \E w \in Watchers : WatchPolled(w)
  \/ \E w \in Watchers : WatchCtxDone(w)
  \/ \E w \in Watchers : Cancel(w)
  \/ Tick
  \/ \E k \in RotatedKeys, v \in Values \cup {NoValue} : SetUpstream(k, v)

WatchSpec == Init /\ [][WatchNext]_vars

\* Both goroutines are Watch goroutines, for the same key or for different
\* keys, and no other goroutine calls Get; the store and KMS answer every
\* call.
WatchersInit ==
  /\ upstream = [k \in Keys |-> "A"]
  /\ ver = [k \in Keys |-> 0]
  /\ cache = NoCache
  /\ readers = {}
  /\ writer = "none"
  /\ pc = [p \in Procs |-> "idle"]
  /\ key = [p \in Procs |-> "k1"]
  /\ calls = [p \in Procs |-> 0]
  /\ slept = [p \in Procs |-> <<>>]
  /\ errs = [p \in Procs |-> <<>>]
  /\ secretsMap = [p \in Procs |-> EmptyMap]
  /\ todo = [p \in Procs |-> {}]
  /\ cache0 = [p \in Procs |-> NoCache]
  /\ res = [p \in Procs |-> NoRes]
  /\ wpc = [w \in Procs |-> "new"]
  /\ wkey = [w \in Procs |-> "k1"]
  /\ lastVal = [w \in Procs |-> NoValue]
  /\ cancelled = [w \in Procs |-> FALSE]
  /\ cbCount = [w \in Procs |-> 0]
  /\ seedVer = [w \in Procs |-> -1]
  /\ lastVer = [w \in Procs |-> -1]
  /\ missed = [w \in Procs |-> FALSE]

\* A step of the Get that process p is running, answered by the store and
\* by KMS.
GetStepOk(p) ==
  \/ GetLookup(p, TRUE)
  \/ GetFetch(p, <<>>)
  \/ GetLock(p)
  \/ \E k \in Keys : GetInstall(p, k, TRUE)
  \/ GetFinish(p, TRUE)

WatchersNext ==
  \/ \E w \in Procs : GetStepOk(w) /\ UNCHANGED wvars
  \/ \E w \in Procs, k \in Keys : WatchStartOn(w, k)
  \/ \E w \in Procs : WatchSeeded(w)
  \/ \E w \in Procs : WatchTick(w)
  \/ \E w \in Procs : WatchPolled(w)
  \/ \E w \in Procs : WatchCtxDone(w)
  \/ \E w \in Procs : Cancel(w)
  \/ Tick
  \/ \E k \in RotatedKeys, v \in Values \cup {NoValue} : SetUpstream(k, v)

WatchersSpec == WatchersInit /\ [][WatchersNext]_vars

\* The store fails every call of one fetch.
StoreDown == [i \in 1..maxAttempts |-> StoreError]

\* A step of the Get that process p is running, where the store answers a
\* fetch at once or fails all its calls.
LockStep(p) ==
  \/ \E kmsOk \in BOOLEAN : GetLookup(p, kmsOk)
  \/ \E fails \in {<<>>, StoreDown} : GetFetch(p, fails)
  \/ GetLock(p)
  \/ \E k \in Keys, kmsOk \in BOOLEAN : GetInstall(p, k, kmsOk)
  \/ \E kmsOk \in BOOLEAN : GetFinish(p, kmsOk)

\* A key the secret does not hold.
AbsentKey == "k3"

\* An application goroutine calls Get, also for a key the secret does not
\* hold, while a Watch runs; the secret is not rotated.
LockNext ==
  \/ \E p \in Procs : LockStep(p) /\ UNCHANGED wvars
  \/ \E g \in Getters : GetterCall(g)
  \/ \E g \in Getters : GetCall(g, AbsentKey) /\ UNCHANGED wvars
  \/ \E g \in Getters : GetterReturn(g)
  \/ \E w \in Watchers : WatchStart(w)
  \/ \E w \in Watchers : WatchSeeded(w)
  \/ \E w \in Watchers : WatchTick(w)
  \/ \E w \in Watchers : WatchPolled(w)
  \/ \E w \in Watchers : WatchCtxDone(w)
  \/ \E w \in Watchers : Cancel(w)
  \/ Tick

\* The scheduling of the goroutines.  A goroutine that can take a step of
\* its Get takes one: a step that waits for s.cacheLock is taken although
\* other goroutines take and release the lock again and again (a blocked
\* Lock keeps new readers out, and a released lock is granted to a waiter).
\* A Watch goroutine that is started calls its seed Get, takes what its Get
\* returned, and takes the case of ctx.Done() when it is at its select with
\* ctx cancelled again and again (select chooses among its ready cases at
\* random).
Fairness ==
  /\ \A p \in Procs : SF_vars(LockStep(p) /\ UNCHANGED wvars)
  /\ \A w \in Watchers : SF_vars(WatchStart(w))
  /\ \A w \in Watchers : WF_vars(WatchSeeded(w))
  /\ \A w \in Watchers : WF_vars(WatchPolled(w))
  /\ \A w \in Watchers : SF_vars(WatchCtxDone(w))

FairSpec == Init /\ [][LockNext]_vars /\ Fairness
\* ============================================================== claims
\* ---------------------------------------------------------------- C1
\* C1, as claimed: if a Get(k) has succeeded at time t0 (the time at which
\* it found its value in the cache or stored it there; process p holds its
\* result), a Get(k) of another process that looks the cache up after that,
\* at t1 with t1 - t0 < cacheTTL, makes no call to the store and returns the
\* same value (or the error of a decryption that failed).
C1_FreshSinceLastGet ==
  [][\A p \in Procs, q \in Procs :
       ( /\ p # q
         /\ pc[p] = "done" /\ Succeeded(res[p])
         /\ pc[q] = "lookup" /\ pc'[q] # "lookup"
         /\ key[q] = key[p]
         /\ now - res[p].at < cacheTTL )
       => /\ pc'[q] = "done"
          /\ calls'[q] = 0
          /\ res'[q].kind \in {"hit", "cachedDecryptErr"}
          /\ res'[q].kind = "hit" => res'[q].val = res[p].val]_vars

\* C1, amended: the TTL counts from the fetch time of the entry, not from the
\* last Get that succeeded.  If the lookup of Get(k) at time t1 finds an
\* entry for k that was fetched at t0 with t1 - t0 < cacheTTL, Get makes no
\* call to the store and returns the value that was fetched into that
\* entry, whatever the upstream value has become (or the error of a
\* decryption that failed).
C1_FreshEntryServed ==
  [][\A q \in Procs :
       ( /\ pc[q] = "lookup" /\ pc'[q] # "lookup"
         /\ key[q] \in DOMAIN cache
         /\ now - cache[key[q]].fetchedAt < cacheTTL )
       => /\ pc'[q] = "done"
          /\ calls'[q] = 0
          /\ cache' = cache
          /\ res'[q].kind \in {"hit", "cachedDecryptErr"}
          /\ res'[q].kind = "hit" =>
               res'[q].val = cache[key[q]].encryptedValue.bytes.data]_vars

\* A Get has been answered from a fresh entry, with no call to the store,
\* after the upstream value of its key has changed.
C1_Witness ==
  \E q \in Procs :
    /\ pc[q] = "done" /\ res[q].kind = "hit" /\ calls[q] = 0
    /\ res[q].val = "A"
    /\ key[q] \in DOMAIN upstream /\ upstream[key[q]] = "B"

\* ---------------------------------------------------------------- C2
\* C2: a Get(k) whose lookup finds the entry of k expired goes on to fetch;
\* the fetch, when the store succeeds on the first attempt, is exactly one
\* call and yields the upstream mapping of that moment; and when a Get(k)
\* succeeded cacheTTL or longer ago (process q holds its result) and the
\* entry of k had expired, the Get of k, if no KMS call fails, returns the
\* value of k in the mapping it fetched, not the previously cached one.
C2_ExpiryTriggersRefresh ==
  [][\A p \in Procs :
       /\ ( /\ pc[p] = "lookup" /\ pc'[p] # "lookup"
            /\ key[p] \in DOMAIN cache
            /\ now - cache[key[p]].fetchedAt >= cacheTTL )
          => pc'[p] = "fetch"
       /\ ( pc[p] = "fetch" /\ pc'[p] = "lock" )
          => /\ secretsMap'[p] = upstream
             /\ slept'[p] = <<>> => calls'[p] = 1
       /\ ( /\ pc[p] = "install" /\ pc'[p] = "done"
            /\ \E q \in Procs \ {p} :
                 /\ pc[q] = "done" /\ Succeeded(res[q]) /\ key[q] = key[p]
                 /\ now - res[q].at >= cacheTTL
            /\ key[p] \in DOMAIN cache0[p]
            /\ now - cache0[p][key[p]].fetchedAt >= cacheTTL
            /\ res'[p].kind \notin {"encryptErr", "decryptErr"} )
          => /\ res'[p].kind = "refreshed"
             /\ key[p] \in DOMAIN secretsMap[p]
             /\ res'[p].val = secretsMap[p][key[p]]]_vars

\* ---------------------------------------------------------------- C3
\* C3: when the install loop of a refresh has run to its end, the keys of
\* the cache are exactly the keys of the mapping just fetched.
C3_FullReplace ==
  \A p \in Procs :
    (pc[p] = "install" /\ todo[p] = {}) => DOMAIN cache = DOMAIN secretsMap[p]

\* ---------------------------------------------------------------- C4
\* C4: a Get(k) that took the refresh path (the cache held no entry for k,
\* or an expired one), fetched a mapping without k and met no KMS failure
\* returns the key-not-found error and no value.
C4_KeyNotFound ==
  [][\A p \in Procs :
       ( /\ pc[p] = "install" /\ pc'[p] = "done"
         /\ key[p] \notin DOMAIN secretsMap[p]
         /\ \/ key[p] \notin DOMAIN cache0[p]
            \/ now - cache0[p][key[p]].fetchedAt >= cacheTTL
         /\ res'[p].kind \notin {"encryptErr", "decryptErr"} )
       => (res'[p].kind = "notFound" /\ res'[p].val = NoValue)]_vars

\* ---------------------------------------------------------------- C5
\* C5: a Get never makes more than maxAttempts calls to the store, and a
\* Get that fails with a fetch error has made exactly maxAttempts calls,
\* all of which failed, returns the error of the last of them and returns
\* no value.
C5_RetryExhaustion ==
  \A p \in Procs :
    /\ calls[p] <= maxAttempts
    /\ (pc[p] = "done" /\ res[p].kind \in {"store", "empty", "malformed"})
       => /\ calls[p] = maxAttempts
          /\ Len(errs[p]) = maxAttempts
          /\ res[p].kind = errs[p][maxAttempts]
          /\ res[p].val = NoValue
    /\ (pc[p] = "lock") => (calls[p] = Len(slept[p]) + 1 /\ errs[p] = <<>>)

\* A Get has failed after three failed calls, the last of which failed in
\* another way than those before it.
C5_Witness ==
  \E p \in Procs :
    /\ pc[p] = "done" /\ res[p].kind = "malformed"
    /\ calls[p] = 3
    /\ errs[p] = <<"store", "store", "malformed">>

\* ---------------------------------------------------------------- C6
\* C6: when the encryption of a key fails during the install loop, the
\* cache is what it was when the refresh took the write lock.
C6_EncryptionFailureInstallsNothing ==
  [][\A p \in Procs :
       (pc[p] = "install" /\ pc'[p] = "done" /\ res'[p].kind = "encryptErr")
       => cache' = cache0[p]]_vars

\* ---------------------------------------------------------------- C7
\* C7: no lookup holds the read lock while a refresh holds the write lock,
\* and whenever a refresh releases the write lock the cache is either what
\* it was when the lock was taken or holds every key of the new mapping
\* (the install loop has run to its end).
C7_AtomicVisibility ==
  [][\A p \in Procs :
       /\ readers # {} => writer = "none"
       /\ (writer = p /\ writer' # p)
          => (cache' = cache0[p] \/ todo[p] = {})]_vars

\* ---------------------------------------------------------------- C8
\* C8: once ctx is cancelled, the callback is not invoked again.
C8_NoCallbackAfterCancel ==
  [][\A w \in Watchers :
       cancelled[w] =>
         ~(wpc[w] = "poll" /\ wpc'[w] = "select" /\ lastVal'[w] # lastVal[w])]_vars

\* ---------------------------------------------------------------- C9
\* C9 (its safety half): when the upstream value of the watched key was
\* the seed and has changed once since, the callback has been invoked at
\* most once, and if once, with the new value.
C9_NotifiedExactlyOnce ==
  \A w \in Watchers :
    ( /\ seedVer[w] >= 0
      /\ ver[wkey[w]] = seedVer[w] + 1
      /\ wkey[w] \in DOMAIN upstream )
    => /\ cbCount[w] <= 1
       /\ cbCount[w] = 1 => lastVal[w] = upstream[wkey[w]]

\* --------------------------------------------------------------- C10
\* C10: while lastVal is the current upstream value of the watched key
\* (it was that value when it was taken and the upstream has not changed
\* since), the callback is not invoked.
C10_NoSpuriousNotification ==
  [][\A w \in Watchers :
       (lastVer[w] >= 0 /\ lastVer[w] = ver[wkey[w]])
       => ~(wpc[w] = "poll" /\ wpc'[w] = "select" /\ lastVal'[w] # lastVal[w])]_vars

\* --------------------------------------------------------------- C11
\* The error kinds of a fetch that failed.
FetchErrors == {"store", "empty", "malformed"}

\* C11: the step in which the fetch of a Get fails returns the fetch error
\* and no value and leaves the cache and its lock as they were; and the
\* cache is written (an entry added, its ciphertext changed or its fetch
\* time renewed) only in a step of a process that holds the write lock in
\* its install loop, which a Get whose fetch fails never reaches; no entry
\* is ever removed.
C11_FetchFailureLeavesCache ==
  [][/\ \A p \in Procs :
          (pc[p] = "fetch" /\ pc'[p] = "done")
          => /\ res'[p].kind \in FetchErrors
             /\ res'[p].val = NoValue
             /\ cache' = cache
             /\ writer' = writer /\ readers' = readers
     /\ DOMAIN cache \subseteq DOMAIN cache'
     /\ ( \E k \in DOMAIN cache' :
            \/ k \notin DOMAIN cache
            \/ cache'[k].encryptedValue # cache[k].encryptedValue
            \/ cache'[k].fetchedAt > cache[k].fetchedAt )
        => \E q \in Procs : pc[q] = "install" /\ writer = q /\ errs[q] = <<>>]_vars

\* The fetch of a Get has failed while the cache held an expired entry of
\* its key and an entry of another key, and both are still there.
C11_Witness ==
  \E p \in Procs :
    /\ pc[p] = "done" /\ res[p].kind \in FetchErrors
    /\ DOMAIN cache = Keys
    /\ now - cache[key[p]].fetchedAt >= cacheTTL

\* --------------------------------------------------------------- C12
\* C12: when the lookup of Get(k) finds a fresh entry for k and the
\* decryption of it fails, Get returns the cached-decryption error of k and
\* no value, does not go on to fetch (no call to the store) and leaves the
\* cache and its lock untouched; and a Get that holds that error has made no
\* call to the store and has fetched nothing.
C12_CachedDecryptionError ==
  [][\A p \in Procs :
       /\ ( /\ pc[p] = "lookup" /\ pc'[p] # "lookup"
            /\ key[p] \in DOMAIN cache
            /\ now - cache[key[p]].fetchedAt < cacheTTL
            /\ DecryptValue(cache[key[p]].encryptedValue, TRUE).val # res'[p].val )
          => /\ res'[p] = [kind |-> "cachedDecryptErr", val |-> NoValue, at |-> -cacheTTL]
             /\ pc'[p] = "done"
             /\ calls'[p] = 0
             /\ cache' = cache
             /\ writer' = writer
       /\ (pc'[p] = "done" /\ res'[p].kind = "cachedDecryptErr")
          => /\ calls'[p] = 0 /\ slept'[p] = <<>>
             /\ secretsMap'[p] = EmptyMap
             /\ writer' # p]_vars

\* A Get has failed with the cached-decryption error on a fresh entry whose
\* upstream value has changed since it was fetched.
C12_Witness ==
  \E p \in Procs :
    /\ pc[p] = "done" /\ res[p].kind = "cachedDecryptErr"
    /\ key[p] \in DOMAIN cache
    /\ now - cache[key[p]].fetchedAt < cacheTTL
    /\ key[p] \in DOMAIN upstream
    /\ upstream[key[p]] # DecryptValue(cache[key[p]].encryptedValue, TRUE).val

\* --------------------------------------------------------------- C13
\* The retries the schedule is followed over.
MaxRetries == 6

\* retry's variable delay when it is slept for the n-th time: initialDelay,
\* then doubled and capped after every failed attempt.
RECURSIVE DelayBefore(_)
DelayBefore(n) == IF n <= 1 THEN initialDelay ELSE NextDelay(DelayBefore(n - 1))

\* C13: the n-th delay a fetch sleeps is min(initialDelay * 2^(n-1),
\* maxDelay): the first is initialDelay, each later one is twice the one
\* before it, capped at maxDelay, and none exceeds maxDelay; this holds of
\* the delays every Get has slept, and of the delays the loop would go on to
\* sleep, as far as MaxRetries.
C13_BackoffSchedule ==
  /\ \A p \in Procs : \A n \in 1..Len(slept[p]) :
       /\ slept[p][n] = Min(initialDelay * 2^(n - 1), maxDelay)
       /\ slept[p][n] = DelayBefore(n)
       /\ n > 1 => slept[p][n] = Min(2 * slept[p][n - 1], maxDelay)
  /\ \A n \in 1..MaxRetries :
       /\ DelayBefore(n) = Min(initialDelay * 2^(n - 1), maxDelay)
       /\ DelayBefore(n) <= maxDelay

\* A fetch has succeeded on its third attempt, after two retries.
C13_Witness ==
  \E p \in Procs :
    /\ pc[p] = "lock" /\ calls[p] = maxAttempts
    /\ slept[p] = <<initialDelay, 2 * initialDelay>>

\* --------------------------------------------------------------- C14
\* The errors of a payload that is absent or empty, or does not parse.
PayloadErrors == {"empty", "malformed"}

\* C14: a Get fails with the empty-payload or the malformed-payload error
\* only in the step that ends its fetch, after exactly maxAttempts calls to
\* the store that all failed, with no value and the cache unchanged; a fetch
\* whose maxAttempts calls all met the same payload failure fails with that
\* error; and retry, given a store that answers every call with the same
\* failing payload, makes maxAttempts calls and returns that error.
C14_PayloadFailuresRetried ==
  [][/\ \A p \in Procs :
          /\ (pc'[p] = "done" /\ res'[p].kind \in PayloadErrors)
             => /\ calls'[p] = maxAttempts
                /\ Len(errs'[p]) = maxAttempts
                /\ res'[p].val = NoValue
                /\ pc[p] \in {"fetch", "done"}
                /\ pc[p] = "fetch" => cache' = cache
          /\ \A e \in PayloadErrors :
               (pc'[p] = "done" /\ errs'[p] = [i \in 1..maxAttempts |-> e])
               => res'[p].kind = e
     /\ \A a \in FailedAnswers \ {StoreError} :
          LET r == retry([n \in 1..(maxAttempts + 1) |-> a])
          IN  /\ ~r.ok /\ r.calls = maxAttempts
              /\ r.err = operation(a).err /\ r.err \in PayloadErrors]_vars

\* One Get has failed after three empty payloads and another after three
\* payloads that do not parse.
C14_Witness ==
  \E p \in Procs, q \in Procs :
    /\ pc[p] = "done" /\ res[p].kind = "empty" /\ calls[p] = maxAttempts
    /\ errs[p] = <<"empty", "empty", "empty">>
    /\ pc[q] = "done" /\ res[q].kind = "malformed" /\ calls[q] = maxAttempts
    /\ errs[q] = <<"malformed", "malformed", "malformed">>

\* --------------------------------------------------------------- C15
\* The outputs of the encryption gateway over the plaintexts.
Ciphertexts == { EncryptValue(v, TRUE).val : v \in Values }

\* C15: after every step, each cache entry holds an output of the
\* encryption gateway (base64 text of a blob sealed by KMS) over a plaintext,
\* never bytes that were not sealed, together with a fetch time that is not
\* in the future; an entry whose key is never rotated holds the gateway's
\* output over the upstream value of that key; and the step of the install
\* loop that writes the entry of k writes the gateway's output over the
\* fetched value of k with the time of the write, and no other step changes
\* the ciphertext of an entry.
C15_CiphertextOnly ==
  [][/\ \A k \in DOMAIN cache' :
          /\ cache'[k].encryptedValue \in Ciphertexts
          /\ Base64Valid(cache'[k].encryptedValue)
          /\ Base64Decode(cache'[k].encryptedValue).kms
          /\ cache'[k].fetchedAt <= now
          /\ k \notin RotatedKeys =>
               cache'[k].encryptedValue = EncryptValue(upstream'[k], TRUE).val
     /\ \A p \in Procs, k \in Keys :
          (pc[p] = "install" /\ k \in todo[p] /\ k \notin todo'[p] /\ pc'[p] = "install")
          => cache'[k] = cachedSecret(Base64Encode(KmsSeal(secretsMap[p][k])), now)
     /\ \A k \in DOMAIN cache' :
          (k \notin DOMAIN cache \/ cache'[k].encryptedValue # cache[k].encryptedValue)
          => \E p \in Procs :
               /\ pc[p] = "install" /\ k \in todo[p] /\ k \notin todo'[p]
               /\ DecryptValue(cache'[k].encryptedValue, TRUE).val = secretsMap[p][k]]_vars

\* The cache holds the ciphertext of a value of k1 that was fetched after
\* the rotation, beside the ciphertext of k2.
C15_Witness ==
  /\ DOMAIN cache = Keys
  /\ cache["k1"].encryptedValue = Base64Encode(KmsSeal("B"))
  /\ cache["k2"].encryptedValue = Base64Encode(KmsSeal("A"))

\* --------------------------------------------------------------- C16
\* The plaintexts, the byte strings and the strings that are no base64.
Plaintexts == Values \cup {NoValue}

Blobs == { [kms |-> s, data |-> d] : s \in BOOLEAN, d \in Plaintexts }

NotBase64 == { [b64 |-> FALSE, bytes |-> b] : b \in Blobs }

C17_CancelCheckedAtStart ==
  [][\A w \in Watchers :
       (wpc[w] = "new" /\ cancelled[w]) => wpc'[w] # "seed"]_vars

\* --------------------------------------------------------------- C18
\* C18: a fetch that has made n calls to the store has slept n - 1 times;
\* in particular a fetch that failed, after maxAttempts calls, has slept
\* maxAttempts - 1 times.
C18_DelaysOnlyBeforeRetries ==
  \A p \in Procs :
    calls[p] > 0 => Len(slept[p]) = calls[p] - 1

\* --------------------------------------------------------------- C19
\* C19: the step in which the fetch of a Get succeeds has made exactly one
\* call more than it has slept delays (the k - 1 failed attempts and the
\* successful attempt k <= maxAttempts), yields the upstream mapping of that
\* moment with no error and writes nothing; the Get makes no call and sleeps
\* no delay after it; and retry, whenever a fetch ends, had the store failed
\* the first k - 1 calls in any modelled way and then answered, would have
\* made k calls, slept k - 1 delays and returned that answer's mapping and
\* no error.
C19_FirstSuccessEndsLoop ==
  [][/\ \A p \in Procs :
          /\ (pc[p] = "fetch" /\ pc'[p] = "lock")
             => /\ secretsMap'[p] = upstream
                /\ calls'[p] = Len(slept'[p]) + 1
                /\ calls'[p] <= maxAttempts
                /\ errs'[p] = <<>>
                /\ res' = res /\ cache' = cache
          /\ pc[p] = "lock" => (calls'[p] \in {calls[p], 0} /\ Len(slept'[p]) <= Len(slept[p]))
          /\ pc[p] = "install" => (calls'[p] = 0 /\ slept'[p] = <<>>)
     /\ \A fails \in FailedCalls :
          (Len(fails) < maxAttempts /\ \E p \in Procs : pc[p] = "fetch" /\ pc'[p] # "fetch") =>
            LET r == retry(Answers(fails, upstream))
            IN  /\ r.ok /\ r.err = "nil"
                /\ r.map = upstream
                /\ r.calls = Len(fails) + 1
                /\ Len(r.slept) = Len(fails)
                /\ r.errs = [i \in 1..Len(fails) |-> operation(fails[i]).err]]_vars

\* A fetch has succeeded on its second attempt, with the rotated mapping.
C19_Witness ==
  \E p \in Procs :
    /\ pc[p] = "lock" /\ calls[p] = 2 /\ slept[p] = <<initialDelay>>
    /\ secretsMap[p] = upstream
    /\ "k1" \in DOMAIN upstream /\ upstream["k1"] = "B"

\* --------------------------------------------------------------- C20
\* C20: when the seed Get of a Watch has failed, the goroutine exits without
\* starting its ticker and without invoking the callback (the ticker starts
\* only after a seed that succeeded); and a goroutine that has exited stays
\* so whatever happens upstream: it is in no Get, makes no call to the store
\* and never invokes the callback.
C20_SeedFailureIsFatal ==
  [][\A w \in Watchers :
       /\ ( /\ wpc[w] = "seed" /\ pc[w] = "done" /\ ~Succeeded(res[w])
            /\ wpc'[w] # "seed" )
          => /\ wpc'[w] = "exit"
             /\ cbCount'[w] = cbCount[w]
             /\ pc'[w] = "idle"
       /\ (wpc[w] = "seed" /\ wpc'[w] = "select") => Succeeded(res[w])
       /\ wpc[w] = "exit"
          => /\ wpc'[w] = "exit"
             /\ pc[w] = "idle" /\ pc'[w] = "idle"
             /\ calls'[w] = 0
             /\ cbCount'[w] = cbCount[w]
             /\ lastVal'[w] = lastVal[w]]_vars

\* The goroutine has exited on a failed seed (ctx was never cancelled), and
\* the upstream value of the watched key is there and has changed; the
\* callback was not invoked.
C20_Witness ==
  \E w \in Watchers :
    /\ wpc[w] = "exit" /\ ~cancelled[w]
    /\ cbCount[w] = 0
    /\ wkey[w] \in DOMAIN upstream /\ upstream[wkey[w]] = "B"
    /\ ver[wkey[w]] = 1

\* --------------------------------------------------------------- C21
\* C21: when the Get of a poll has failed, the goroutine invokes no
\* callback, keeps lastVal and goes back to its select, where the next tick
\* polls again; when the Get of a poll has succeeded, after a failed poll or
\* not, a value that differs from lastVal (which is still the one from
\* before the failure) is handed to the callback exactly once and becomes
\* lastVal, and a value equal to lastVal is not handed to the callback.
C21_PollFailureNonFatal ==
  [][\A w \in Watchers :
       (wpc[w] = "poll" /\ wpc'[w] # "poll")
       => /\ pc[w] = "done"
          /\ wpc'[w] = "select" /\ pc'[w] = "idle"
          /\ ~Succeeded(res[w])
             => (cbCount'[w] = cbCount[w] /\ lastVal'[w] = lastVal[w])
          /\ (Succeeded(res[w]) /\ res[w].val # lastVal[w])
             => /\ lastVal'[w] = res[w].val
                /\ cbCount'[w] = Min(cbCount[w] + 1, 2)
          /\ (Succeeded(res[w]) /\ res[w].val = lastVal[w])
             => (cbCount'[w] = cbCount[w] /\ lastVal'[w] = lastVal[w])]_vars

\* A poll failed before any callback; a later poll has found the changed
\* value and the callback was invoked, once, with it.
C21_Witness ==
  \E w \in Watchers :
    /\ missed[w] /\ cbCount[w] = 1
    /\ wpc[w] = "select"
    /\ wkey[w] \in DOMAIN upstream
    /\ lastVal[w] = "B" /\ upstream[wkey[w]] = "B"

\* --------------------------------------------------------------- C22
\* C22: with two Watch sessions sharing the cache, for each session: when
\* the upstream value of its key was its seed and has changed once since,
\* its callback has been invoked at most once, and if once, with the new
\* value; and while the upstream value of its key has never changed, its
\* callback has not been invoked.
C22_IndependentWatchers ==
  \A w \in Procs :
    /\ ( /\ seedVer[w] >= 0
         /\ ver[wkey[w]] = seedVer[w] + 1
         /\ wkey[w] \in DOMAIN upstream )
       => /\ cbCount[w] <= 1
          /\ cbCount[w] = 1 => lastVal[w] = upstream[wkey[w]]
    /\ ver[wkey[w]] = 0 => cbCount[w] = 0

\* --------------------------------------------------------------- C23
\* The plaintext a cache entry holds.
PlaintextOf(entry) == DecryptValue(entry.encryptedValue, TRUE).val

\* C23: once a refresh of Get(k) has returned the current upstream value of
\* k and the cache holds it, no step that leaves the upstream as it is
\* replaces it in the cache by another value (one that a racing refresh
\* fetched earlier).
C23_NoRegress ==
  [][\A k \in DOMAIN cache :
       ( /\ k \in DOMAIN upstream
         /\ PlaintextOf(cache[k]) = upstream[k]
         /\ \E q \in Procs :
              /\ pc[q] = "done" /\ res[q].kind = "refreshed"
              /\ key[q] = k /\ res[q].val = upstream[k]
         /\ upstream' = upstream )
       => PlaintextOf(cache'[k]) = PlaintextOf(cache[k])]_vars

\* --------------------------------------------------------------- C24
\* The lock is held as s.cacheLock allows, and only inside Get: readers
\* only while no writer holds it, by goroutines at their lookup; the writer
\* is a goroutine in its install loop; a goroutine that is not in Get, has
\* returned from it, or is between its lookup and its Lock holds nothing.
LockDiscipline ==
  /\ readers # {} => writer = "none"
  /\ \A p \in readers : pc[p] = "lookup"
  /\ writer # "none" => (writer \in Procs /\ pc[writer] = "install")
  /\ \A p \in Procs :
       /\ pc[p] = "install" => writer = p
       /\ pc[p] = "lookup" => p \in readers
       /\ pc[p] \in {"idle", "fetch", "lock", "done"} => (p \notin readers /\ writer # p)

\* A step writes the cache (adds an entry, changes a ciphertext or renews
\* a fetch time) only when taken by the goroutine that holds the write lock,
\* while no goroutine holds the read lock.
WritesUnderLock ==
  ( \E k \in DOMAIN cache' :
      \/ k \notin DOMAIN cache
      \/ cache'[k].encryptedValue # cache[k].encryptedValue
      \/ cache'[k].fetchedAt > cache[k].fetchedAt )
  => (writer \in Procs /\ readers = {} /\ pc[writer] = "install" /\ pc'[writer] = "install")

\* C24: in every interleaving of a goroutine calling Get and a Watch
\* goroutine, the lock is held as above and the cache is written only under
\* the write lock; every Get that was called returns (so no goroutine waits
\* for the lock for ever), on whichever path, with the lock released; and a
\* Watch goroutine whose ctx is cancelled exits.
C24_LockDisciplineAndTermination ==
  /\ []LockDiscipline
  /\ [][WritesUnderLock]_vars
  /\ \A p \in Procs : (pc[p] \in {"lookup", "fetch", "lock", "install"}) ~> (pc[p] = "done")
  /\ \A w \in Watchers : cancelled[w] ~> (wpc[w] = "exit")

\* The Watch goroutine was cancelled and has exited; a Get of the other
\* goroutine has returned from its install loop with an encryption error,
\* after it had written an entry; nobody holds the lock.
C24_Witness ==
  /\ \E w \in Watchers : cancelled[w] /\ wpc[w] = "exit"
  /\ \E p \in Getters : pc[p] = "done" /\ res[p].kind = "encryptErr"
  /\ cache # NoCache
  /\ writer = "none" /\ readers = {}
====
